---- MODULE Spec2Model ----
(***************************************************************************)
(* A model of claude-monitor.30s.py, the SwiftBar plugin that renders the  *)
(* Claude Code usage monitor in the menu bar: its settings store           *)
(* (widget-config.json), its metrics formatter, its render pipeline        *)
(* (main) and its command dispatcher (the __main__ block).                 *)
(*                                                                         *)
(* Python strings are sequences of code points, so that                    *)
(* str.lower() and str.strip() are computed.  JSON values are tagged       *)
(* records [t, v].  A file is [exists, body, size]: the JSON text last     *)
(* written at offset 0 and the length of the file in bytes; it parses      *)
(* exactly when the file is as long as the text of its body.  Floats are   *)
(* IEEE 754 doubles, with every division and multiplication rounded as the *)
(* interpreter rounds it.                                                  *)
(***************************************************************************)
EXTENDS Integers, Sequences, FiniteSets, TLC

VARIABLES
    file,       \* ~/.claude-monitor/widget-config.json (CONFIG_PATH)
    legacy,     \* ~/.claude-monitor/last_used.json
    env,        \* the value of CCM_PLAN ("" when unset)
    writable,   \* whether CONFIG_PATH can be opened for writing
    argv,       \* sys.argv[1:] of the last invocation
    exitCode,   \* its exit code (1: an uncaught exception)
    out,        \* the lines it printed
    render,     \* the locals of main() it reached
    before,     \* widget-config.json as the last invocation found it
    snapshot,   \* what the analyzer library did in the last invocation
    pct, width, bar,   \* an application of bar_graph
    procs,      \* the concurrent command invocations (SpecRace)
    lastWriter, \* the invocation whose write reached the file last
    reader      \* what a concurrent render read

vars == <<file, legacy, env, writable, argv, exitCode, out, render, before,
          snapshot, pct, width, bar, procs, lastWriter, reader>>

----------------------------------------------------------------------------
(* Text.  A Python string is the sequence of its code points. *)

\* The characters with str.isspace(): those str.strip() removes.
Whitespace ==
    (9..13) \cup (28..32) \cup {133, 160, 5760} \cup (8192..8202)
    \cup {8232, 8233, 8239, 8287, 12288}

\* The lower case of the characters that have one of one character, as the
\* interpreter's Unicode database (14.0.0) gives it.  A rule <<first, last,
\* step, delta>> maps every step-th character from first to last to the
\* character delta further on.
LowerMap ==
    LET rules ==
        { <<65,90,1,32>>, <<192,214,1,32>>, <<216,222,1,32>>, <<256,302,2,1>>,
          <<306,310,2,1>>, <<313,327,2,1>>, <<330,374,2,1>>,
          <<376,376,1,-121>>, <<377,381,2,1>>, <<385,385,1,210>>,
          <<386,388,2,1>>, <<390,390,1,206>>, <<391,391,1,1>>,
          <<393,394,1,205>>, <<395,395,1,1>>, <<398,398,1,79>>,
          <<399,399,1,202>>, <<400,400,1,203>>, <<401,401,1,1>>,
          <<403,403,1,205>>, <<404,404,1,207>>, <<406,406,1,211>>,
          <<407,407,1,209>>, <<408,408,1,1>>, <<412,412,1,211>>,
          <<413,413,1,213>>, <<415,415,1,214>>, <<416,420,2,1>>,
          <<422,422,1,218>>, <<423,423,1,1>>, <<425,425,1,218>>,
          <<428,428,1,1>>, <<430,430,1,218>>, <<431,431,1,1>>,
          <<433,434,1,217>>, <<435,437,2,1>>, <<439,439,1,219>>,
          <<440,440,1,1>>, <<444,444,1,1>>, <<452,452,1,2>>, <<453,453,1,1>>,
          <<455,455,1,2>>, <<456,456,1,1>>, <<458,458,1,2>>, <<459,475,2,1>>,
          <<478,494,2,1>>, <<497,497,1,2>>, <<498,500,2,1>>,
          <<502,502,1,-97>>, <<503,503,1,-56>>, <<504,542,2,1>>,
          <<544,544,1,-130>>, <<546,562,2,1>>, <<570,570,1,10795>>,
          <<571,571,1,1>>, <<573,573,1,-163>>, <<574,574,1,10792>>,
          <<577,577,1,1>>, <<579,579,1,-195>>, <<580,580,1,69>>,
          <<581,581,1,71>>, <<582,590,2,1>>, <<880,882,2,1>>, <<886,886,1,1>>,
          <<895,895,1,116>>, <<902,902,1,38>>, <<904,906,1,37>>,
          <<908,908,1,64>>, <<910,911,1,63>>, <<913,929,1,32>>,
          <<931,939,1,32>>, <<975,975,1,8>>, <<984,1006,2,1>>,
          <<1012,1012,1,-60>>, <<1015,1015,1,1>>, <<1017,1017,1,-7>>,
          <<1018,1018,1,1>>, <<1021,1023,1,-130>>, <<1024,1039,1,80>>,
          <<1040,1071,1,32>>, <<1120,1152,2,1>>, <<1162,1214,2,1>>,
          <<1216,1216,1,15>>, <<1217,1229,2,1>>, <<1232,1326,2,1>>,
          <<1329,1366,1,48>>, <<4256,4293,1,7264>>, <<4295,4295,1,7264>>,
          <<4301,4301,1,7264>>, <<5024,5103,1,38864>>, <<5104,5109,1,8>>,
          <<7312,7354,1,-3008>>, <<7357,7359,1,-3008>>, <<7680,7828,2,1>>,
          <<7838,7838,1,-7615>>, <<7840,7934,2,1>>, <<7944,7951,1,-8>>,
          <<7960,7965,1,-8>>, <<7976,7983,1,-8>>, <<7992,7999,1,-8>>,
          <<8008,8013,1,-8>>, <<8025,8031,2,-8>>, <<8040,8047,1,-8>>,
          <<8072,8079,1,-8>>, <<8088,8095,1,-8>>, <<8104,8111,1,-8>>,
          <<8120,8121,1,-8>>, <<8122,8123,1,-74>>, <<8124,8124,1,-9>>,
          <<8136,8139,1,-86>>, <<8140,8140,1,-9>>, <<8152,8153,1,-8>>,
          <<8154,8155,1,-100>>, <<8168,8169,1,-8>>, <<8170,8171,1,-112>>,
          <<8172,8172,1,-7>>, <<8184,8185,1,-128>>, <<8186,8187,1,-126>>,
          <<8188,8188,1,-9>>, <<8486,8486,1,-7517>>, <<8490,8490,1,-8383>>,
          <<8491,8491,1,-8262>>, <<8498,8498,1,28>>, <<8544,8559,1,16>>,
          <<8579,8579,1,1>>, <<9398,9423,1,26>>, <<11264,11311,1,48>>,
          <<11360,11360,1,1>>, <<11362,11362,1,-10743>>,
          <<11363,11363,1,-3814>>, <<11364,11364,1,-10727>>,
          <<11367,11371,2,1>>, <<11373,11373,1,-10780>>,
          <<11374,11374,1,-10749>>, <<11375,11375,1,-10783>>,
          <<11376,11376,1,-10782>>, <<11378,11378,1,1>>, <<11381,11381,1,1>>,
          <<11390,11391,1,-10815>>, <<11392,11490,2,1>>, <<11499,11501,2,1>>,
          <<11506,11506,1,1>>, <<42560,42604,2,1>>, <<42624,42650,2,1>>,
          <<42786,42798,2,1>>, <<42802,42862,2,1>>, <<42873,42875,2,1>>,
          <<42877,42877,1,-35332>>, <<42878,42886,2,1>>, <<42891,42891,1,1>>,
          <<42893,42893,1,-42280>>, <<42896,42898,2,1>>, <<42902,42920,2,1>>,
          <<42922,42922,1,-42308>>, <<42923,42923,1,-42319>>,
          <<42924,42924,1,-42315>>, <<42925,42925,1,-42305>>,
          <<42926,42926,1,-42308>>, <<42928,42928,1,-42258>>,
          <<42929,42929,1,-42282>>, <<42930,42930,1,-42261>>,
          <<42931,42931,1,928>>, <<42932,42946,2,1>>, <<42948,42948,1,-48>>,
          <<42949,42949,1,-42307>>, <<42950,42950,1,-35384>>,
          <<42951,42953,2,1>>, <<42960,42960,1,1>>, <<42966,42968,2,1>>,
          <<42997,42997,1,1>>, <<65313,65338,1,32>>, <<66560,66599,1,40>>,
          <<66736,66771,1,40>>, <<66928,66938,1,39>>, <<66940,66954,1,39>>,
          <<66956,66962,1,39>>, <<66964,66965,1,39>>, <<68736,68786,1,64>>,
          <<71840,71871,1,32>>, <<93760,93791,1,32>>, <<125184,125217,1,34>> }
    IN  [c \in UNION {{r[1] + r[3] * k : k \in 0..((r[2] - r[1]) \div r[3])} : r \in rules} |->
            c + (CHOOSE r \in rules :
                     r[1] <= c /\ c <= r[2] /\ (c - r[1]) % r[3] = 0)[4]]

\* The cased characters that are not case-ignorable, as ranges
\* <<first, last>>: the letters that begin or continue a word for the
\* Final_Sigma rule of str.lower().
Cased ==
    UNION {r[1]..r[2] : r \in {
      <<65,90>>, <<97,122>>, <<170,170>>, <<181,181>>, <<186,186>>,
      <<192,214>>, <<216,246>>, <<248,442>>, <<444,447>>, <<452,659>>,
      <<661,687>>, <<880,883>>, <<886,887>>, <<891,893>>, <<895,895>>,
      <<902,902>>, <<904,906>>, <<908,908>>, <<910,929>>, <<931,1013>>,
      <<1015,1153>>, <<1162,1327>>, <<1329,1366>>, <<1376,1416>>,
      <<4256,4293>>, <<4295,4295>>, <<4301,4301>>, <<4304,4346>>,
      <<4349,4351>>, <<5024,5109>>, <<5112,5117>>, <<7296,7304>>,
      <<7312,7354>>, <<7357,7359>>, <<7424,7467>>, <<7531,7543>>,
      <<7545,7578>>, <<7680,7957>>, <<7960,7965>>, <<7968,8005>>,
      <<8008,8013>>, <<8016,8023>>, <<8025,8025>>, <<8027,8027>>,
      <<8029,8029>>, <<8031,8061>>, <<8064,8116>>, <<8118,8124>>,
      <<8126,8126>>, <<8130,8132>>, <<8134,8140>>, <<8144,8147>>,
      <<8150,8155>>, <<8160,8172>>, <<8178,8180>>, <<8182,8188>>,
      <<8450,8450>>, <<8455,8455>>, <<8458,8467>>, <<8469,8469>>,
      <<8473,8477>>, <<8484,8484>>, <<8486,8486>>, <<8488,8488>>,
      <<8490,8493>>, <<8495,8500>>, <<8505,8505>>, <<8508,8511>>,
      <<8517,8521>>, <<8526,8526>>, <<8544,8575>>, <<8579,8580>>,
      <<9398,9449>>, <<11264,11387>>, <<11390,11492>>, <<11499,11502>>,
      <<11506,11507>>, <<11520,11557>>, <<11559,11559>>, <<11565,11565>>,
      <<42560,42605>>, <<42624,42651>>, <<42786,42863>>, <<42865,42887>>,
      <<42891,42894>>, <<42896,42954>>, <<42960,42961>>, <<42963,42963>>,
      <<42965,42969>>, <<42997,42998>>, <<43002,43002>>, <<43824,43866>>,
      <<43872,43880>>, <<43888,43967>>, <<64256,64262>>, <<64275,64279>>,
      <<65313,65338>>, <<65345,65370>>, <<66560,66639>>, <<66736,66771>>,
      <<66776,66811>>, <<66928,66938>>, <<66940,66954>>, <<66956,66962>>,
      <<66964,66965>>, <<66967,66977>>, <<66979,66993>>, <<66995,67001>>,
      <<67003,67004>>, <<68736,68786>>, <<68800,68850>>, <<71840,71903>>,
      <<93760,93823>>, <<119808,119892>>, <<119894,119964>>,
      <<119966,119967>>, <<119970,119970>>, <<119973,119974>>,
      <<119977,119980>>, <<119982,119993>>, <<119995,119995>>,
      <<119997,120003>>, <<120005,120069>>, <<120071,120074>>,
      <<120077,120084>>, <<120086,120092>>, <<120094,120121>>,
      <<120123,120126>>, <<120128,120132>>, <<120134,120134>>,
      <<120138,120144>>, <<120146,120485>>, <<120488,120512>>,
      <<120514,120538>>, <<120540,120570>>, <<120572,120596>>,
      <<120598,120628>>, <<120630,120654>>, <<120656,120686>>,
      <<120688,120712>>, <<120714,120744>>, <<120746,120770>>,
      <<120772,120779>>, <<122624,122633>>, <<122635,122654>>,
      <<125184,125251>>, <<127280,127305>>, <<127312,127337>>,
      <<127344,127369>> }}

\* The case-ignorable characters: those the Final_Sigma rule skips.
Ignorable ==
    UNION {r[1]..r[2] : r \in {
      <<39,39>>, <<46,46>>, <<58,58>>, <<94,94>>, <<96,96>>, <<168,168>>,
      <<173,173>>, <<175,175>>, <<180,180>>, <<183,184>>, <<688,879>>,
      <<884,885>>, <<890,890>>, <<900,901>>, <<903,903>>, <<1155,1161>>,
      <<1369,1369>>, <<1375,1375>>, <<1425,1469>>, <<1471,1471>>,
      <<1473,1474>>, <<1476,1477>>, <<1479,1479>>, <<1524,1524>>,
      <<1536,1541>>, <<1552,1562>>, <<1564,1564>>, <<1600,1600>>,
      <<1611,1631>>, <<1648,1648>>, <<1750,1757>>, <<1759,1768>>,
      <<1770,1773>>, <<1807,1807>>, <<1809,1809>>, <<1840,1866>>,
      <<1958,1968>>, <<2027,2037>>, <<2042,2042>>, <<2045,2045>>,
      <<2070,2093>>, <<2137,2139>>, <<2184,2184>>, <<2192,2193>>,
      <<2200,2207>>, <<2249,2306>>, <<2362,2362>>, <<2364,2364>>,
      <<2369,2376>>, <<2381,2381>>, <<2385,2391>>, <<2402,2403>>,
      <<2417,2417>>, <<2433,2433>>, <<2492,2492>>, <<2497,2500>>,
      <<2509,2509>>, <<2530,2531>>, <<2558,2558>>, <<2561,2562>>,
      <<2620,2620>>, <<2625,2626>>, <<2631,2632>>, <<2635,2637>>,
      <<2641,2641>>, <<2672,2673>>, <<2677,2677>>, <<2689,2690>>,
      <<2748,2748>>, <<2753,2757>>, <<2759,2760>>, <<2765,2765>>,
      <<2786,2787>>, <<2810,2815>>, <<2817,2817>>, <<2876,2876>>,
      <<2879,2879>>, <<2881,2884>>, <<2893,2893>>, <<2901,2902>>,
      <<2914,2915>>, <<2946,2946>>, <<3008,3008>>, <<3021,3021>>,
      <<3072,3072>>, <<3076,3076>>, <<3132,3132>>, <<3134,3136>>,
      <<3142,3144>>, <<3146,3149>>, <<3157,3158>>, <<3170,3171>>,
      <<3201,3201>>, <<3260,3260>>, <<3263,3263>>, <<3270,3270>>,
      <<3276,3277>>, <<3298,3299>>, <<3328,3329>>, <<3387,3388>>,
      <<3393,3396>>, <<3405,3405>>, <<3426,3427>>, <<3457,3457>>,
      <<3530,3530>>, <<3538,3540>>, <<3542,3542>>, <<3633,3633>>,
      <<3636,3642>>, <<3654,3662>>, <<3761,3761>>, <<3764,3772>>,
      <<3782,3782>>, <<3784,3789>>, <<3864,3865>>, <<3893,3893>>,
      <<3895,3895>>, <<3897,3897>>, <<3953,3966>>, <<3968,3972>>,
      <<3974,3975>>, <<3981,3991>>, <<3993,4028>>, <<4038,4038>>,
      <<4141,4144>>, <<4146,4151>>, <<4153,4154>>, <<4157,4158>>,
      <<4184,4185>>, <<4190,4192>>, <<4209,4212>>, <<4226,4226>>,
      <<4229,4230>>, <<4237,4237>>, <<4253,4253>>, <<4348,4348>>,
      <<4957,4959>>, <<5906,5908>>, <<5938,5939>>, <<5970,5971>>,
      <<6002,6003>>, <<6068,6069>>, <<6071,6077>>, <<6086,6086>>,
      <<6089,6099>>, <<6103,6103>>, <<6109,6109>>, <<6155,6159>>,
      <<6211,6211>>, <<6277,6278>>, <<6313,6313>>, <<6432,6434>>,
      <<6439,6440>>, <<6450,6450>>, <<6457,6459>>, <<6679,6680>>,
      <<6683,6683>>, <<6742,6742>>, <<6744,6750>>, <<6752,6752>>,
      <<6754,6754>>, <<6757,6764>>, <<6771,6780>>, <<6783,6783>>,
      <<6823,6823>>, <<6832,6862>>, <<6912,6915>>, <<6964,6964>>,
      <<6966,6970>>, <<6972,6972>>, <<6978,6978>>, <<7019,7027>>,
      <<7040,7041>>, <<7074,7077>>, <<7080,7081>>, <<7083,7085>>,
      <<7142,7142>>, <<7144,7145>>, <<7149,7149>>, <<7151,7153>>,
      <<7212,7219>>, <<7222,7223>>, <<7288,7293>>, <<7376,7378>>,
      <<7380,7392>>, <<7394,7400>>, <<7405,7405>>, <<7412,7412>>,
      <<7416,7417>>, <<7468,7530>>, <<7544,7544>>, <<7579,7679>>,
      <<8125,8125>>, <<8127,8129>>, <<8141,8143>>, <<8157,8159>>,
      <<8173,8175>>, <<8189,8190>>, <<8203,8207>>, <<8216,8217>>,
      <<8228,8228>>, <<8231,8231>>, <<8234,8238>>, <<8288,8292>>,
      <<8294,8303>>, <<8305,8305>>, <<8319,8319>>, <<8336,8348>>,
      <<8400,8432>>, <<11388,11389>>, <<11503,11505>>, <<11631,11631>>,
      <<11647,11647>>, <<11744,11775>>, <<11823,11823>>, <<12293,12293>>,
      <<12330,12333>>, <<12337,12341>>, <<12347,12347>>, <<12441,12446>>,
      <<12540,12542>>, <<40981,40981>>, <<42232,42237>>, <<42508,42508>>,
      <<42607,42610>>, <<42612,42621>>, <<42623,42623>>, <<42652,42655>>,
      <<42736,42737>>, <<42752,42785>>, <<42864,42864>>, <<42888,42890>>,
      <<42994,42996>>, <<43000,43001>>, <<43010,43010>>, <<43014,43014>>,
      <<43019,43019>>, <<43045,43046>>, <<43052,43052>>, <<43204,43205>>,
      <<43232,43249>>, <<43263,43263>>, <<43302,43309>>, <<43335,43345>>,
      <<43392,43394>>, <<43443,43443>>, <<43446,43449>>, <<43452,43453>>,
      <<43471,43471>>, <<43493,43494>>, <<43561,43566>>, <<43569,43570>>,
      <<43573,43574>>, <<43587,43587>>, <<43596,43596>>, <<43632,43632>>,
      <<43644,43644>>, <<43696,43696>>, <<43698,43700>>, <<43703,43704>>,
      <<43710,43711>>, <<43713,43713>>, <<43741,43741>>, <<43756,43757>>,
      <<43763,43764>>, <<43766,43766>>, <<43867,43871>>, <<43881,43883>>,
      <<44005,44005>>, <<44008,44008>>, <<44013,44013>>, <<64286,64286>>,
      <<64434,64450>>, <<65024,65039>>, <<65043,65043>>, <<65056,65071>>,
      <<65106,65106>>, <<65109,65109>>, <<65279,65279>>, <<65287,65287>>,
      <<65294,65294>>, <<65306,65306>>, <<65342,65342>>, <<65344,65344>>,
      <<65392,65392>>, <<65438,65439>>, <<65507,65507>>, <<65529,65531>>,
      <<66045,66045>>, <<66272,66272>>, <<66422,66426>>, <<67456,67461>>,
      <<67463,67504>>, <<67506,67514>>, <<68097,68099>>, <<68101,68102>>,
      <<68108,68111>>, <<68152,68154>>, <<68159,68159>>, <<68325,68326>>,
      <<68900,68903>>, <<69291,69292>>, <<69446,69456>>, <<69506,69509>>,
      <<69633,69633>>, <<69688,69702>>, <<69744,69744>>, <<69747,69748>>,
      <<69759,69761>>, <<69811,69814>>, <<69817,69818>>, <<69821,69821>>,
      <<69826,69826>>, <<69837,69837>>, <<69888,69890>>, <<69927,69931>>,
      <<69933,69940>>, <<70003,70003>>, <<70016,70017>>, <<70070,70078>>,
      <<70089,70092>>, <<70095,70095>>, <<70191,70193>>, <<70196,70196>>,
      <<70198,70199>>, <<70206,70206>>, <<70367,70367>>, <<70371,70378>>,
      <<70400,70401>>, <<70459,70460>>, <<70464,70464>>, <<70502,70508>>,
      <<70512,70516>>, <<70712,70719>>, <<70722,70724>>, <<70726,70726>>,
      <<70750,70750>>, <<70835,70840>>, <<70842,70842>>, <<70847,70848>>,
      <<70850,70851>>, <<71090,71093>>, <<71100,71101>>, <<71103,71104>>,
      <<71132,71133>>, <<71219,71226>>, <<71229,71229>>, <<71231,71232>>,
      <<71339,71339>>, <<71341,71341>>, <<71344,71349>>, <<71351,71351>>,
      <<71453,71455>>, <<71458,71461>>, <<71463,71467>>, <<71727,71735>>,
      <<71737,71738>>, <<71995,71996>>, <<71998,71998>>, <<72003,72003>>,
      <<72148,72151>>, <<72154,72155>>, <<72160,72160>>, <<72193,72202>>,
      <<72243,72248>>, <<72251,72254>>, <<72263,72263>>, <<72273,72278>>,
      <<72281,72283>>, <<72330,72342>>, <<72344,72345>>, <<72752,72758>>,
      <<72760,72765>>, <<72767,72767>>, <<72850,72871>>, <<72874,72880>>,
      <<72882,72883>>, <<72885,72886>>, <<73009,73014>>, <<73018,73018>>,
      <<73020,73021>>, <<73023,73029>>, <<73031,73031>>, <<73104,73105>>,
      <<73109,73109>>, <<73111,73111>>, <<73459,73460>>, <<78896,78904>>,
      <<92912,92916>>, <<92976,92982>>, <<92992,92995>>, <<94031,94031>>,
      <<94095,94111>>, <<94176,94177>>, <<94179,94180>>, <<110576,110579>>,
      <<110581,110587>>, <<110589,110590>>, <<113821,113822>>,
      <<113824,113827>>, <<118528,118573>>, <<118576,118598>>,
      <<119143,119145>>, <<119155,119170>>, <<119173,119179>>,
      <<119210,119213>>, <<119362,119364>>, <<121344,121398>>,
      <<121403,121452>>, <<121461,121461>>, <<121476,121476>>,
      <<121499,121503>>, <<121505,121519>>, <<122880,122886>>,
      <<122888,122904>>, <<122907,122913>>, <<122915,122916>>,
      <<122918,122922>>, <<123184,123197>>, <<123566,123566>>,
      <<123628,123631>>, <<125136,125142>>, <<125252,125259>>,
      <<127995,127999>>, <<917505,917505>>, <<917536,917631>>,
      <<917760,917999>> }}

\* str.lower() from the i-th character of s on.  GREEK CAPITAL LETTER SIGMA
\* (931) becomes the final sigma (962) after a cased letter and before none,
\* case-ignorable characters skipped, and the small sigma (963) elsewhere;
\* LATIN CAPITAL LETTER I WITH DOT ABOVE (304) becomes i and a combining
\* dot above.
RECURSIVE LowerFrom(_, _)
LowerFrom(s, i) ==
    IF i > Len(s) THEN <<>>
    ELSE LET left == {j \in 1..(i - 1) : s[j] \notin Ignorable}
             right == {j \in (i + 1)..Len(s) : s[j] \notin Ignorable}
             final == /\ left # {}
                      /\ s[CHOOSE j \in left : \A k \in left : k <= j] \in Cased
                      /\ \/ right = {}
                         \/ s[CHOOSE j \in right : \A k \in right : j <= k] \notin Cased
         IN  (IF s[i] = 931 THEN <<IF final THEN 962 ELSE 963>>
              ELSE IF s[i] = 304 THEN <<105, 775>>
              ELSE IF s[i] \in DOMAIN LowerMap THEN <<LowerMap[s[i]]>>
              ELSE <<s[i]>>)
             \o LowerFrom(s, i + 1)

\* str.lower()
Lower(s) == LowerFrom(s, 1)

RECURSIVE LStrip(_)
LStrip(s) ==
    IF s # <<>> /\ Head(s) \in Whitespace THEN LStrip(Tail(s)) ELSE s

RECURSIVE RStrip(_)
RStrip(s) ==
    IF s # <<>> /\ s[Len(s)] \in Whitespace
    THEN RStrip(SubSeq(s, 1, Len(s) - 1)) ELSE s

\* str.strip()
Strip(s) == RStrip(LStrip(s))

\* The idiom  x.lower().strip()  of get_plan and of the dispatcher.
Normalise(s) == Strip(Lower(s))

InSeq(x, s) == \E i \in 1..Len(s) : s[i] = x

----------------------------------------------------------------------------
(* Program constants *)

PRO    == <<112, 114, 111>>    \* "pro"
MAX5   == <<109, 97, 120, 53>>    \* "max5"
MAX20  == <<109, 97, 120, 50, 48>>    \* "max20"
CUSTOM == <<99, 117, 115, 116, 111, 109>>    \* "custom"

VALID_PLANS == <<PRO, MAX5, MAX20, CUSTOM>>

TOKEN_PCT == <<116, 111, 107, 101, 110, 95, 112, 99, 116>>    \* "token_pct"
COST      == <<99, 111, 115, 116>>    \* "cost"
COST_PCT  == <<99, 111, 115, 116, 95, 112, 99, 116>>    \* "cost_pct"
MSG       == <<109, 115, 103>>    \* "msg"
MSG_PCT   == <<109, 115, 103, 95, 112, 99, 116>>    \* "msg_pct"

\* The keys of DISPLAY_METRICS, in order.
DISPLAY_METRICS == <<TOKEN_PCT, COST, COST_PCT, MSG, MSG_PCT>>

----------------------------------------------------------------------------
(* JSON values *)

Missing == [t |-> "missing", v |-> 0]      \* no value: an absent key, no text
Null    == [t |-> "null", v |-> 0]
Str(s)  == [t |-> "str", v |-> s]
Num(n)  == [t |-> "num", v |-> n]
Bool(b) == [t |-> "bool", v |-> b]
List(s) == [t |-> "list", v |-> s]
\* A JSON object over the keys the program knows and one it does not.
Obj(p, d, o) == [t |-> "obj", v |-> [plan |-> p, display |-> d, theme |-> o]]

EmptyObj == Obj(Missing, Missing, Missing)

KeyOrder == <<"plan", "display", "theme">>

KeyLen(k) == CASE k = "plan" -> 4 [] k = "display" -> 7 [] k = "theme" -> 5

DEFAULT_DISPLAY == <<Str(TOKEN_PCT), Str(COST)>>

valid_keys == {Str(DISPLAY_METRICS[i]) : i \in 1..Len(DISPLAY_METRICS)}

\* The number of characters json.dump (ensure_ascii) writes for one
\* character of a string: a two-character escape for the quote, the
\* backslash and \n, \r, \t, \f, \b; itself for the other printable ASCII
\* characters; \uXXXX for the rest, a surrogate pair of them beyond U+FFFF.
CharLen(c) ==
    IF c \in {34, 92, 10, 13, 9, 12, 8} THEN 2
    ELSE IF 32 <= c /\ c <= 126 THEN 1
    ELSE IF c < 65536 THEN 6
    ELSE 12

\* The number of characters of str(n).
RECURSIVE Digits(_)
Digits(n) ==
    IF n < 0 THEN 1 + Digits(-n) ELSE IF n < 10 THEN 1 ELSE 1 + Digits(n \div 10)

RECURSIVE SumSeq(_)
SumSeq(s) == IF s = <<>> THEN 0 ELSE Head(s) + SumSeq(Tail(s))

\* The number of characters json.dump(v, f, indent=2) writes for v nested
\* `lvl` levels deep.
RECURSIVE Size(_, _)
Size(v, lvl) ==
    CASE v.t = "missing" -> 0
      [] v.t = "null" -> 4
      [] v.t = "bool" -> IF v.v THEN 4 ELSE 5
      [] v.t = "num" -> Digits(v.v)
      [] v.t = "str" ->
            2 + SumSeq([i \in 1..Len(v.v) |-> CharLen(v.v[i])])
      [] v.t = "list" ->
            IF v.v = <<>> THEN 2
            ELSE 2 + SumSeq([i \in 1..Len(v.v) |->
                                2 * (lvl + 1) + Size(v.v[i], lvl + 1)])
                   + 2 * (Len(v.v) - 1) + 1 + 2 * lvl + 1
      [] v.t = "obj" ->
            LET ks == SelectSeq(KeyOrder, LAMBDA k : v.v[k].t # "missing")
            IN  IF ks = <<>> THEN 2
                ELSE 2 + SumSeq([i \in 1..Len(ks) |->
                                    2 * (lvl + 1) + KeyLen(ks[i]) + 2 + 2
                                    + Size(v.v[ks[i]], lvl + 1)])
                       + 2 * (Len(ks) - 1) + 1 + 2 * lvl + 1

----------------------------------------------------------------------------
(* Files *)

Absent == [exists |-> FALSE, body |-> Missing, size |-> 0]

\* A file holding exactly the text of v.
FileOf(v) == [exists |-> TRUE, body |-> v, size |-> Size(v, 0)]

\* A file holding the text of v followed by n more bytes that are no JSON.
Garbled(v, n) == [exists |-> TRUE, body |-> v, size |-> Size(v, 0) + n]

\* json.load(f): [ok, value]; not ok stands for the exception it raises.
Load(f) ==
    IF f.body.t # "missing" /\ f.size = Size(f.body, 0)
    THEN [ok |-> TRUE, value |-> f.body]
    ELSE [ok |-> FALSE, value |-> Missing]

\* open(path, "w"): creates the file or cuts it to length 0.
Truncate(f) == [exists |-> TRUE, body |-> Missing, size |-> 0]

\* The write of the whole text of v at offset 0 that closing the file does:
\* bytes of an earlier, longer content past the end of the text stay.
WriteAt0(f, v) ==
    [exists |-> TRUE, body |-> v,
     size |-> IF f.size > Size(v, 0) THEN f.size ELSE Size(v, 0)]

----------------------------------------------------------------------------
(* Settings store *)

\* config.get("plan", "").lower().strip() in VALID_PLANS, for the value
\* json.load returned: [ok, plan]; not ok is a miss or a caught exception.
PlanOf(loaded) ==
    IF ~loaded.ok \/ loaded.value.t # "obj" THEN [ok |-> FALSE, plan |-> <<>>]
    ELSE LET p == loaded.value.v.plan
         IN  IF p.t = "str" /\ InSeq(Normalise(p.v), VALID_PLANS)
             THEN [ok |-> TRUE, plan |-> Normalise(p.v)]
             ELSE [ok |-> FALSE, plan |-> <<>>]

get_plan_file_first(e, f, l) ==
    IF f.exists /\ PlanOf(Load(f)).ok THEN PlanOf(Load(f)).plan
    ELSE IF InSeq(Normalise(e), VALID_PLANS) THEN Normalise(e)
    ELSE IF l.exists /\ PlanOf(Load(l)).ok THEN PlanOf(Load(l)).plan
    ELSE PRO

get_plan(e, f, l) ==
    IF InSeq(Normalise(e), VALID_PLANS) THEN Normalise(e)
    ELSE IF f.exists /\ PlanOf(Load(f)).ok THEN PlanOf(Load(f)).plan
    ELSE IF l.exists /\ PlanOf(Load(l)).ok THEN PlanOf(Load(l)).plan
    ELSE PRO

Hashable(v) == v.t \notin {"list", "obj"}

get_display_unguarded(f) ==
    IF f.exists /\ Load(f).ok /\ Load(f).value.t = "obj"
    THEN LET d == Load(f).value.v.display
         IN  IF d.t = "list" /\ \A i \in 1..Len(d.v) : Hashable(d.v[i])
             THEN SelectSeq(d.v, LAMBDA x : x.t = "str" /\ x \in valid_keys)
             ELSE DEFAULT_DISPLAY
    ELSE DEFAULT_DISPLAY

get_display(f) ==
    IF f.exists /\ Load(f).ok /\ Load(f).value.t = "obj"
    THEN LET d == Load(f).value.v.display
         IN  IF d.t = "list" /\ \A i \in 1..Len(d.v) : Hashable(d.v[i])
             THEN LET filtered == SelectSeq(d.v, LAMBDA x : x.t = "str" /\ x \in valid_keys)
                  IN  IF filtered # <<>> THEN filtered ELSE DEFAULT_DISPLAY
             ELSE DEFAULT_DISPLAY
    ELSE DEFAULT_DISPLAY

\* list.remove(x): drops the first occurrence of x.
Remove(s, x) ==
    LET i == CHOOSE j \in 1..Len(s) : s[j] = x /\ \A k \in 1..(j - 1) : s[k] # x
    IN  SubSeq(s, 1, i - 1) \o SubSeq(s, i + 1, Len(s))

\* The list toggle_display hands to _save_config.
Toggled(current, metric) ==
    LET c == IF InSeq(metric, current) THEN Remove(current, metric)
             ELSE Append(current, metric)
    IN  IF c = <<>> THEN DEFAULT_DISPLAY ELSE c

\* config = {} or what json.load returned.
ReadConfig(f) == IF f.exists /\ Load(f).ok THEN Load(f).value ELSE EmptyObj

\* config[key] = value
SetKey(config, key, value) ==
    [t |-> "obj", v |-> [config.v EXCEPT ![key] = value]]

\* The first half of _save_config: the document it is about to write.
\* config[key] = value raises TypeError on a document that is no object.
Merge(f, key, value) ==
    LET config == ReadConfig(f)
    IN  IF config.t # "obj" THEN [raised |-> TRUE, doc |-> Missing]
        ELSE [raised |-> FALSE, doc |-> SetKey(config, key, value)]

\* _save_config: [file, raised].  Neither the TypeError nor the OSError of
\* an open() that fails is caught.
_save_config(f, w, key, value) ==
    LET m == Merge(f, key, value)
    IN  IF m.raised \/ ~w THEN [file |-> f, raised |-> TRUE]
        ELSE [file |-> WriteAt0(Truncate(f), m.doc), raised |-> FALSE]

set_plan(f, w, p) == _save_config(f, w, "plan", Str(p))

toggle_display(f, w, metric) ==
    _save_config(f, w, "display", List(Toggled(get_display(f), metric)))

----------------------------------------------------------------------------
(* Colours and glyphs *)

COLOR_GREEN  == "#6BDB7B"
COLOR_YELLOW == "#FFD95C"
COLOR_ORANGE == "#FF9F43"
COLOR_RED    == "#FF6B6B"
COLOR_GRAY   == "#8E8E93"
COLOR_WHITE  == "#FFFFFF"
COLOR_DIM    == "#A0A0A8"
COLOR_LABEL  == "#B0B0B8"
NO_COLOR     == ""          \* a line printed without a color attribute

FULL  == "#"                \* U+2588, the full block
EMPTY == "."                \* U+2591, the light shade

RECURSIVE GCD(_, _)
GCD(a, b) == IF b = 0 THEN a ELSE GCD(b, a % b)

\* The rational n / d, d > 0, in lowest terms: how the inputs of bar_graph
\* are written.
Rat(n, d) ==
    LET g == GCD(IF n < 0 THEN -n ELSE n, d)
    IN  [n |-> n \div g, d |-> d \div g]

----------------------------------------------------------------------------
(* Floats.  A Python float is an IEEE 754 double: [neg, m, e] stands for    *)
(* (-1)^neg * m * 2^e, with m a natural number of at most MantBits bits,    *)
(* odd or zero.  Naturals that do not fit a machine integer are sequences   *)
(* of limbs, base Base, most significant first, without leading zeros.      *)
(* Overflow to infinity and subnormal results are out of range of the       *)
(* values the program handles and are not modelled.                         *)

LimbBits == 10
Base     == 1024
MantBits == 53

Zeros(k) == [i \in 1..k |-> 0]

RECURSIVE NatTrim(_)
NatTrim(n) == IF n # <<>> /\ Head(n) = 0 THEN NatTrim(Tail(n)) ELSE n

\* The limbs of an integer k >= 0.
RECURSIVE NatOf(_)
NatOf(k) == IF k = 0 THEN <<>> ELSE Append(NatOf(k \div Base), k % Base)

\* The integer of at most three limbs.
RECURSIVE IntOf(_)
IntOf(n) ==
    IF n = <<>> THEN 0 ELSE IntOf(SubSeq(n, 1, Len(n) - 1)) * Base + n[Len(n)]

RECURSIVE BitLen(_)
BitLen(k) == IF k = 0 THEN 0 ELSE 1 + BitLen(k \div 2)

\* The number of bits of n.
NatBits(n) == IF n = <<>> THEN 0 ELSE LimbBits * (Len(n) - 1) + BitLen(Head(n))

\* -1, 0, 1 as a < b, a = b, a > b.
NatCmp(a, b) ==
    IF Len(a) # Len(b) THEN (IF Len(a) < Len(b) THEN -1 ELSE 1)
    ELSE LET diff == {i \in 1..Len(a) : a[i] # b[i]}
         IN  IF diff = {} THEN 0
             ELSE LET i == CHOOSE j \in diff : \A k \in diff : j <= k
                  IN  IF a[i] < b[i] THEN -1 ELSE 1

\* n * k + carry, for 0 <= k, carry < 2^20
RECURSIVE NatMulStep(_, _, _, _)
NatMulStep(n, k, carry, acc) ==
    IF n = <<>> THEN NatOf(carry) \o acc
    ELSE NatMulStep(SubSeq(n, 1, Len(n) - 1), k,
                    (n[Len(n)] * k + carry) \div Base,
                    <<(n[Len(n)] * k + carry) % Base>> \o acc)

NatMul(n, k) == NatTrim(NatMulStep(n, k, 0, <<>>))

\* n + 1
RECURSIVE NatInc(_)
NatInc(n) ==
    IF n = <<>> THEN <<1>>
    ELSE IF n[Len(n)] < Base - 1 THEN [n EXCEPT ![Len(n)] = @ + 1]
    ELSE Append(NatInc(SubSeq(n, 1, Len(n) - 1)), 0)

\* a - b, a >= b, with its leading zeros
RECURSIVE NatSubStep(_, _, _, _)
NatSubStep(a, b, borrow, acc) ==
    IF a = <<>> THEN acc
    ELSE LET y == IF b = <<>> THEN 0 ELSE b[Len(b)]
             x == a[Len(a)] - y - borrow
         IN  NatSubStep(SubSeq(a, 1, Len(a) - 1),
                        IF b = <<>> THEN <<>> ELSE SubSeq(b, 1, Len(b) - 1),
                        IF x < 0 THEN 1 ELSE 0,
                        <<IF x < 0 THEN x + Base ELSE x>> \o acc)

\* n divided by d, 0 < d < 2^21: [q, r], q as long as n.
RECURSIVE NatDivStep(_, _, _, _)
NatDivStep(n, d, r, q) ==
    IF n = <<>> THEN [q |-> q, r |-> r]
    ELSE NatDivStep(Tail(n), d, (r * Base + Head(n)) % d,
                    Append(q, (r * Base + Head(n)) \div d))

NatDiv(n, d) == NatDivStep(n, d, 0, <<>>)

\* n * 2^s
NatShl(n, s) ==
    IF n = <<>> THEN <<>> ELSE NatMul(n, 2 ^ (s % LimbBits)) \o Zeros(s \div LimbBits)

\* n / 2^s: [q, half, sticky], q the quotient, half the first bit shifted
\* out, sticky whether a later one is set.
NatShr(n, s) ==
    LET k  == s \div LimbBits
        j  == s % LimbBits
        m  == IF Len(n) > k THEN n ELSE Zeros(k + 1 - Len(n)) \o n
        hi == SubSeq(m, 1, Len(m) - k)
        lo == SubSeq(m, Len(m) - k + 1, Len(m))
        d  == NatDiv(hi, 2 ^ j)
    IN  IF j > 0
        THEN [q |-> NatTrim(d.q),
              half |-> d.r >= 2 ^ (j - 1),
              sticky |-> d.r % (2 ^ (j - 1)) # 0 \/ \E i \in 1..k : lo[i] # 0]
        ELSE IF k > 0
        THEN [q |-> NatTrim(hi),
              half |-> lo[1] >= Base \div 2,
              sticky |-> lo[1] % (Base \div 2) # 0 \/ \E i \in 2..k : lo[i] # 0]
        ELSE [q |-> NatTrim(n), half |-> FALSE, sticky |-> FALSE]

\* The shifted natural x = NatShr(n, s) rounded to the nearest natural, ties
\* to even; `more` says that n stands for a number a little larger than n.
NatRound(x, more) ==
    IF x.half /\ (x.sticky \/ more \/ (x.q # <<>> /\ x.q[Len(x.q)] % 2 = 1))
    THEN NatInc(x.q)
    ELSE x.q

RECURSIVE TrailingZeros(_)
TrailingZeros(k) == IF k % 2 = 1 THEN 0 ELSE 1 + TrailingZeros(k \div 2)

\* The float (-1)^neg * m * 2^e with m made odd.
RECURSIVE FloatOf(_, _, _)
FloatOf(neg, m, e) ==
    IF m = <<>> THEN [neg |-> FALSE, m |-> <<>>, e |-> 0]
    ELSE IF m[Len(m)] = 0 THEN FloatOf(neg, SubSeq(m, 1, Len(m) - 1), e + LimbBits)
    ELSE [neg |-> neg,
          m |-> NatTrim(NatDiv(m, 2 ^ TrailingZeros(m[Len(m)])).q),
          e |-> e + TrailingZeros(m[Len(m)])]

\* The double nearest to m * 2^e (a little more when `more`), ties to even.
Round53(neg, m, e, more) ==
    IF NatBits(m) <= MantBits THEN FloatOf(neg, m, e)
    ELSE FloatOf(neg, NatRound(NatShr(m, NatBits(m) - MantBits), more),
                 e + NatBits(m) - MantBits)

\* float(k)
FromInt(k) == FloatOf(k < 0, NatOf(IF k < 0 THEN -k ELSE k), 0)

\* The largest g in lo..hi with d * g <= x.
RECURSIVE NatDigit(_, _, _, _)
NatDigit(x, d, lo, hi) ==
    IF lo = hi THEN lo
    ELSE IF NatCmp(NatMul(d, (lo + hi + 1) \div 2), x) <= 0
    THEN NatDigit(x, d, (lo + hi + 1) \div 2, hi)
    ELSE NatDigit(x, d, lo, (lo + hi + 1) \div 2 - 1)

\* Long division of the natural n by the natural d # 0, limb by limb: [q, r].
RECURSIVE NatLongDiv(_, _, _, _)
NatLongDiv(n, d, r, q) ==
    IF n = <<>> THEN [q |-> NatTrim(q), r |-> r]
    ELSE LET x == NatTrim(Append(r, Head(n)))
             g == IF NatCmp(x, d) < 0 THEN 0 ELSE NatDigit(x, d, 1, Base - 1)
         IN  NatLongDiv(Tail(n), d, NatTrim(NatSubStep(x, NatMul(d, g), 0, <<>>)),
                        Append(q, g))

\* a / b, b # 0: the quotient to 100 bits more than a has, then rounded.
FDiv(a, b) ==
    IF Len(b.m) <= 2
    THEN LET x == NatDiv(a.m \o Zeros(10), IntOf(b.m))
         IN  Round53(a.neg # b.neg, NatTrim(x.q), a.e - b.e - 10 * LimbBits, x.r # 0)
    ELSE LET x == NatLongDiv(a.m \o Zeros(11), b.m, <<>>, <<>>)
         IN  Round53(a.neg # b.neg, x.q, a.e - b.e - 11 * LimbBits, x.r # <<>>)

\* a * k for an integer k >= 0
FMul(a, k) == Round53(a.neg, NatMul(a.m, k), a.e, FALSE)

\* -1, 0, 1 as a < b, a = b, a > b.
FCmp(a, b) ==
    LET MagCmp ==
            IF a.m = <<>> \/ b.m = <<>>
            THEN (IF a.m = b.m THEN 0 ELSE IF a.m = <<>> THEN -1 ELSE 1)
            ELSE IF NatBits(a.m) + a.e # NatBits(b.m) + b.e
            THEN (IF NatBits(a.m) + a.e < NatBits(b.m) + b.e THEN -1 ELSE 1)
            ELSE LET e0 == IF a.e < b.e THEN a.e ELSE b.e
                 IN  NatCmp(NatShl(a.m, a.e - e0), NatShl(b.m, b.e - e0))
    IN  IF a.neg # b.neg THEN (IF a.neg THEN -1 ELSE 1)
        ELSE IF a.neg THEN -MagCmp ELSE MagCmp

\* int(x): toward zero, for |x| < 2^30
Trunc(x) ==
    (IF x.neg THEN -1 ELSE 1)
    * (IF x.e >= 0 THEN IntOf(NatShl(x.m, x.e)) ELSE IntOf(NatShr(x.m, -x.e).q))

\* |x| * 10^digits rounded to the nearest integer, ties to even: what the
\* format specs .0f, .1f and .2f print, without the point.
Scaled(x, digits) ==
    LET m == NatMul(x.m, 10 ^ digits)
    IN  IF x.e >= 0 THEN IntOf(NatShl(m, x.e))
        ELSE IntOf(NatRound(NatShr(m, -x.e), FALSE))

\* The digits of n / 10^digits, with the point: digits in 0..2.
Decimal(n, digits) ==
    IF digits = 0 THEN ToString(n)
    ELSE ToString(n \div 10 ^ digits) \o "."
         \o (IF digits = 2 /\ n % 100 < 10 THEN "0" ELSE "")
         \o ToString(n % 10 ^ digits)

\* f"{x:.<digits>f}", digits in 0..2
Fmt(x, digits) == (IF x.neg THEN "-" ELSE "") \o Decimal(Scaled(x, digits), digits)

\* max(a, b, c): the first of the largest
Max3(a, b, c) ==
    LET m == IF FCmp(b, a) > 0 THEN b ELSE a
    IN  IF FCmp(c, m) > 0 THEN c ELSE m

----------------------------------------------------------------------------
(* Metrics formatter *)

get_color_strict(p) ==
    IF FCmp(p, FromInt(95)) > 0 THEN COLOR_RED
    ELSE IF FCmp(p, FromInt(80)) > 0 THEN COLOR_ORANGE
    ELSE IF FCmp(p, FromInt(50)) > 0 THEN COLOR_YELLOW
    ELSE COLOR_GREEN

get_color(p) ==
    IF FCmp(p, FromInt(95)) >= 0 THEN COLOR_RED
    ELSE IF FCmp(p, FromInt(80)) >= 0 THEN COLOR_ORANGE
    ELSE IF FCmp(p, FromInt(50)) >= 0 THEN COLOR_YELLOW
    ELSE COLOR_GREEN

\* s * k for a one-glyph string s: empty when k <= 0
Times(s, k) == [i \in 1..k |-> s]

\* filled = min(int(pct / 100 * width), width)
Filled(p, w) ==
    LET filled == Trunc(FMul(FDiv(p, FromInt(100)), w))
    IN  IF filled < w THEN filled ELSE w

\* FULL * filled + EMPTY * (width - filled)
Glyphs(filled, w) == Times(FULL, filled) \o Times(EMPTY, w - filled)

bar_graph(p, w) == Glyphs(Filled(p, w), w)

\* The glyphs of a bar as one string.
RECURSIVE Concat(_)
Concat(s) == IF s = <<>> THEN "" ELSE Head(s) \o Concat(Tail(s))

Pad3(n) == IF n < 10 THEN "00" \o ToString(n)
           ELSE IF n < 100 THEN "0" \o ToString(n) ELSE ToString(n)

\* f"{n:,}", n >= 0
RECURSIVE fmt_number(_)
fmt_number(n) ==
    IF n < 1000 THEN ToString(n)
    ELSE fmt_number(n \div 1000) \o "," \o Pad3(n % 1000)

\* f"${c:.2f}"
fmt_cost(c) == "$" \o Fmt(c, 2)

\* fmt_duration, for a whole number of minutes
fmt_duration(minutes) ==
    IF minutes < 1 THEN "<1m"
    ELSE IF minutes < 60 THEN ToString(minutes) \o "m"
    ELSE ToString(minutes \div 60) \o "h " \o ToString(minutes % 60) \o "m"

\* The part of the title that one display key contributes ("" for none).
TitlePart(key, token_pct, cost_pct, msg_pct, cost, messages, msg_limit) ==
    CASE key = Str(TOKEN_PCT) -> "TKN " \o Fmt(token_pct, 0) \o "%"
      [] key = Str(COST)      -> "CST " \o fmt_cost(cost)
      [] key = Str(COST_PCT)  -> "CST " \o Fmt(cost_pct, 0) \o "%"
      [] key = Str(MSG)       ->
            "MSG " \o ToString(messages) \o "/" \o ToString(msg_limit)
      [] key = Str(MSG_PCT)   -> "MSG " \o Fmt(msg_pct, 0) \o "%"
      [] OTHER -> ""

\* sep.join(parts)
RECURSIVE Join(_, _)
Join(parts, sep) ==
    IF parts = <<>> THEN ""
    ELSE IF Len(parts) = 1 THEN parts[1]
    ELSE parts[1] \o sep \o Join(Tail(parts), sep)

\* The parts list that _format_title builds.
TitleParts(display, token_pct, cost_pct, msg_pct, cost, messages, msg_limit) ==
    SelectSeq([i \in 1..Len(display) |->
                 TitlePart(display[i], token_pct, cost_pct, msg_pct,
                           cost, messages, msg_limit)],
              LAMBDA x : x # "")

_format_title(display, token_pct, cost_pct, msg_pct, cost, messages, msg_limit) ==
    LET parts == TitleParts(display, token_pct, cost_pct, msg_pct,
                            cost, messages, msg_limit)
    IN  IF parts # <<>> THEN Join(parts, "  ") ELSE "CCM"

----------------------------------------------------------------------------
(* Render pipeline: main().  A printed line is [k, text, color]: which      *)
(* print statement wrote it, its display text and its color attribute;     *)
(* column padding and the font attributes are left out of the text.        *)

Line(k, text, color) == [k |-> k, text |-> text, color |-> color]

SEP == Line("sep", "---", NO_COLOR)

CHECK   == "+ "             \* U+2713 and a space
NOCHECK == "   "

PLAN_LABELS(p) ==
    CASE p = PRO -> "Pro" [] p = MAX5 -> "Max 5" [] p = MAX20 -> "Max 20"
      [] p = CUSTOM -> "Custom"

MetricLabel(k) ==
    CASE k = TOKEN_PCT -> "Token %" [] k = COST -> "Cost ($)"
      [] k = COST_PCT -> "Cost %" [] k = MSG -> "Messages"
      [] k = MSG_PCT -> "Message %"

print_error(title, message) ==
    << Line("title", "CCM -", COLOR_GRAY), SEP, Line("error", title, COLOR_RED),
       Line("error", message, COLOR_DIM) >>

_print_footer ==
    << Line("footer", "Open Terminal Monitor", NO_COLOR), Line("footer", "Refresh", NO_COLOR) >>

_print_plan_submenu(current_plan) ==
    << Line("plan", "Plan: " \o PLAN_LABELS(current_plan), COLOR_WHITE) >>
    \o [i \in 1..Len(VALID_PLANS) |->
          Line("plan", "--" \o (IF VALID_PLANS[i] = current_plan THEN CHECK ELSE NOCHECK)
                    \o PLAN_LABELS(VALID_PLANS[i]), NO_COLOR)]

_print_display_submenu(current_display) ==
    << Line("display", "Display", COLOR_WHITE) >>
    \o [i \in 1..Len(DISPLAY_METRICS) |->
          Line("display", "--" \o (IF InSeq(Str(DISPLAY_METRICS[i]), current_display)
                        THEN CHECK ELSE NOCHECK)
                    \o MetricLabel(DISPLAY_METRICS[i]), NO_COLOR)]

\* b.get("isActive") is truthy
IsActive(b) == b.isActive = "true"

\* The float of an amount of money given in cents: costUSD, cost_limit.
Dollars(cents) == FDiv(FromInt(cents), FromInt(100))

\* used / limit * 100 if limit > 0 else 0
Percent(used, limit) ==
    IF FCmp(limit, FromInt(0)) > 0 THEN FMul(FDiv(used, limit), 100)
    ELSE FromInt(0)

\* sorted(per_model.items(), key=totalTokens, reverse=True), for the token
\* counts of the models: a stable sort, largest first.
RECURSIVE SortDesc(_)
SortDesc(s) ==
    IF s = <<>> THEN <<>>
    ELSE LET i == CHOOSE j \in 1..Len(s) :
                      /\ \A k \in 1..Len(s) : s[k] <= s[j]
                      /\ \A k \in 1..(j - 1) : s[k] < s[j]
         IN  <<s[i]>> \o SortDesc(SubSeq(s, 1, i - 1) \o SubSeq(s, i + 1, Len(s)))

ModelLine(model_tokens, tokens) ==
    LET p == Percent(FromInt(model_tokens), FromInt(tokens))
    IN  Line("model", "model " \o Fmt(p, 0) \o "%",
             IF FCmp(p, FromInt(50)) > 0 THEN get_color(p) ELSE COLOR_DIM)

\* [b for b in blocks if b.get("isActive")]
ActiveBlocks(blocks) == SelectSeq(blocks, IsActive)

LastBlock_first(blocks) == blocks[1]

\* blocks[-1], the block the idle display summarises
LastBlock(blocks) == blocks[Len(blocks)]

\* active_blocks[0], the block the dashboard shows
CurrentBlock(active_blocks) == active_blocks[1]

\* What main() has not reached.
None == "None"

NotRun ==
    [state |-> None, block |-> None, plan |-> None, display |-> None,
     max_pct |-> None, color |-> None, title |-> None]

\* The session-metrics lines of the dropdown, with their bar graphs.
MetricLines(token_pct, cost_pct, msg_pct, tokens, cost, messages, duration, token_limit, cost_limit, msg_limit) ==
    << Line("label", "Tokens", COLOR_WHITE),
       Line("bar", Concat(bar_graph(token_pct, 16)) \o "  " \o Fmt(token_pct, 1) \o "%",
            get_color(token_pct)),
       Line("count", fmt_number(tokens) \o " / " \o fmt_number(token_limit), COLOR_DIM),
       Line("label", "Cost", COLOR_WHITE),
       Line("bar", Concat(bar_graph(cost_pct, 16)) \o "  " \o Fmt(cost_pct, 1) \o "%",
            get_color(cost_pct)),
       Line("count", fmt_cost(cost) \o " / " \o fmt_cost(cost_limit), COLOR_DIM),
       Line("label", "Messages", COLOR_WHITE),
       Line("bar", Concat(bar_graph(msg_pct, 16)) \o "  " \o Fmt(msg_pct, 1) \o "%",
            get_color(msg_pct)),
       Line("count", fmt_number(messages) \o " / " \o fmt_number(msg_limit), COLOR_DIM),
       Line("label", "Duration", COLOR_WHITE),
       Line("count", fmt_duration(duration), COLOR_DIM) >>

\* The lines after the session metrics: burn rate, projection, reset time,
\* model distribution, limit warnings.  Times of day are left out.
DetailLines(block, tokens) ==
    (IF block.burnRate \/ block.projection THEN <<SEP>> ELSE <<>>)
    \o (IF block.burnRate THEN <<Line("burn", "Burn", COLOR_LABEL)>> ELSE <<>>)
    \o (IF block.projection /\ block.remaining > 0
        THEN <<Line("eta", "ETA   " \o fmt_duration(block.remaining) \o " left",
                    COLOR_LABEL)>>
        ELSE <<>>)
    \o (IF block.endTime = "iso" THEN <<Line("reset", "Reset", COLOR_LABEL)>> ELSE <<>>)
    \o (IF block.perModelStats # <<>> /\ tokens > 0
        THEN <<SEP, Line("label", "Models", COLOR_WHITE)>>
             \o [i \in 1..Len(block.perModelStats) |->
                   ModelLine(SortDesc(block.perModelStats)[i], tokens)]
        ELSE <<>>)
    \o (IF block.limitMessages > 0
        THEN <<SEP, Line("label", "Limit Reached", COLOR_RED)>>
             \o [i \in 1..(IF block.limitMessages < 3 THEN block.limitMessages
                           ELSE 3) |-> Line("limit", "limit", COLOR_RED)]
        ELSE <<>>)

\* main() from the metrics on, for the block shown, the settings read, the
\* limits of the plan and the three percentages.
Dashboard(block, plan, display, token_limit, msg_limit, cost, cost_limit, token_pct, cost_pct, msg_pct) ==
    LET tokens == block.totalTokens
        messages == block.sentMessagesCount
        duration == block.durationMinutes
        max_pct == Max3(token_pct, cost_pct, msg_pct)
        color == get_color(max_pct)
        title == _format_title(display, token_pct, cost_pct, msg_pct,
                               cost, messages, msg_limit)
    IN  [raised |-> FALSE,
         out |-> << Line("title", title, color), SEP >>
                 \o _print_plan_submenu(plan)
                 \o _print_display_submenu(display)
                 \o << SEP >>
                 \o MetricLines(token_pct, cost_pct, msg_pct,
                                tokens, cost, messages, duration,
                                token_limit, cost_limit, msg_limit)
                 \o DetailLines(block, tokens)
                 \o << SEP >> \o _print_footer,
         r |-> [state |-> "ActiveBlock", block |-> block,
                plan |-> plan, display |-> display,
                max_pct |-> max_pct, color |-> color,
                title |-> title]]

\* main(): [raised, out, r], r the locals reached.  snap is what the
\* analyzer library does in this run; e, f, l are CCM_PLAN and the two files.
main(snap, e, f, l) ==
    IF ~snap.importable
    THEN [raised |-> FALSE,
          out |-> print_error("claude-monitor not installed",
                              "Install: pip install claude-monitor")
                  \o <<SEP, Line("install", "Install claude-monitor", NO_COLOR)>>,
          r |-> [NotRun EXCEPT !.state = "NoLibrary"]]
    ELSE IF snap.fetchRaises
    THEN [raised |-> FALSE,
          out |-> print_error("Error loading data",
                              SubSeq(snap.error, 1,
                                     IF Len(snap.error) < 80
                                     THEN Len(snap.error) ELSE 80)),
          r |-> [NotRun EXCEPT !.state = "FetchError"]]
    ELSE IF snap.blocks = <<>>
    THEN [raised |-> FALSE,
          out |-> << Line("title", "CCM  Idle", COLOR_GRAY), SEP,
                     Line("hint", "No usage data found", COLOR_DIM),
                     Line("hint", "Start a Claude Code session to see metrics",
                          COLOR_DIM) >>,
          r |-> [NotRun EXCEPT !.state = "NoBlocks"]]
    ELSE LET blocks == snap.blocks
             active_blocks == ActiveBlocks(blocks)
         IN
         IF active_blocks = <<>>
         THEN LET last == LastBlock(blocks)
              IN  [raised |-> FALSE,
                   out |-> << Line("title", "CCM  Idle", COLOR_GRAY), SEP,
                              Line("label", "Last Session", COLOR_WHITE),
                              Line("summary", "TKN  " \o fmt_number(last.totalTokens)
                                   \o "  MSG  "
                                   \o ToString(last.sentMessagesCount),
                                   COLOR_DIM),
                              Line("summary", "CST  " \o fmt_cost(Dollars(last.costUSD))
                                   \o "  DUR  "
                                   \o fmt_duration(last.durationMinutes),
                                   COLOR_DIM),
                              SEP >> \o _print_footer,
                   r |-> [NotRun EXCEPT !.state = "NoActiveBlock",
                                        !.block = last]]
         ELSE LET block == CurrentBlock(active_blocks)
                  plan == get_plan(e, f, l)
              IN  IF snap.limitsRaise
                  THEN [raised |-> TRUE, out |-> <<>>,
                        r |-> [NotRun EXCEPT !.state = "ActiveBlock",
                                             !.block = block, !.plan = plan]]
                  ELSE Dashboard(block, plan, get_display(f),
                                 snap.limits.token, snap.limits.msg,
                                 Dollars(block.costUSD), Dollars(snap.limits.cost),
                                 Percent(FromInt(block.totalTokens),
                                         FromInt(snap.limits.token)),
                                 Percent(Dollars(block.costUSD),
                                         Dollars(snap.limits.cost)),
                                 Percent(FromInt(block.sentMessagesCount),
                                         FromInt(snap.limits.msg)))

----------------------------------------------------------------------------
(* Command dispatcher: the __main__ block.  a is sys.argv[1:]. *)

SET_PLAN_FLAG == <<45, 45, 115, 101, 116, 45, 112, 108, 97, 110>>    \* "--set-plan"

TOGGLE_DISPLAY_FLAG ==                          \* "--toggle-display"
    <<45, 45, 116, 111, 103, 103, 108, 101, 45, 100, 105, 115, 112, 108, 97, 121>>

\* Which branch of the dispatcher an invocation takes.
Dispatch(a) ==
    IF Len(a) >= 2 /\ a[1] = SET_PLAN_FLAG THEN "set-plan"
    ELSE IF Len(a) >= 2 /\ a[1] = TOGGLE_DISPLAY_FLAG THEN "toggle-display"
    ELSE "main"

----------------------------------------------------------------------------
(* The inputs of the model *)

BOGUS == <<98, 111, 103, 117, 115>>    \* "bogus"
DARK  == <<100, 97, 114, 107>>    \* "dark"

\* Contents of widget-config.json: written by the program, or by hand.
InitFiles ==
    { Absent,
      Truncate(Absent),                                  \* an empty file
      Garbled(EmptyObj, 3),                              \* {} and rubbish
      FileOf(List(<<>>)),                                \* JSON, no object
      FileOf(EmptyObj),
      FileOf(Obj(Str(MAX5), Missing, Missing)),
      FileOf(Obj(Str(<<13, 77, 97, 120, 50, 48>>), List(<<>>), Num(7))),  \* "\rMax20"
      FileOf(Obj(Num(3), List(<<Str(BOGUS)>>), Missing)),
      FileOf(Obj(Str(BOGUS), Str(COST), Missing)),
      FileOf(Obj(Missing, List(<<Str(MSG), Str(BOGUS), Num(1)>>), Missing)),
      FileOf(Obj(Missing, List(<<Str(MSG), List(<<>>)>>), Missing)),
      FileOf(Obj(Str(PRO), List(<<Str(COST), Str(COST), Str(MSG)>>), Str(DARK))),
      FileOf(Obj(Missing, List(<<Str(COST)>>), Str(DARK))) }

\* Values of CCM_PLAN.
Envs == { <<>>, <<67, 117, 115, 116, 111, 109, 9>>, BOGUS }    \* "Custom\t"

\* Contents of last_used.json.
Legacies ==
    { Absent, Garbled(EmptyObj, 1), FileOf(Obj(Str(MAX20), Missing, Missing)),
      FileOf(Obj(Null, Missing, Missing)) }

\* Command lines.
Argvs ==
    { <<>>,
      <<SET_PLAN_FLAG>>,
      <<BOGUS, PRO>>,
      <<SET_PLAN_FLAG, PRO>>,
      <<SET_PLAN_FLAG, <<77, 65, 88, 53, 10>>>>,             \* "MAX5\n"
      <<SET_PLAN_FLAG, BOGUS>>,
      <<TOGGLE_DISPLAY_FLAG, COST>>,
      \* "toKen_pct" with KELVIN SIGN (8490) for the k, and U+3000 after it
      <<TOGGLE_DISPLAY_FLAG, <<116, 111, 8490, 101, 110, 95, 112, 99, 116, 12288>>, BOGUS>>,
      <<TOGGLE_DISPLAY_FLAG, PRO>> }

Block(active, tokens, cost, messages, duration) ==
    [isActive |-> active, totalTokens |-> tokens, costUSD |-> cost,
     sentMessagesCount |-> messages, durationMinutes |-> duration,
     burnRate |-> FALSE, projection |-> FALSE, remaining |-> 0,
     endTime |-> "none", perModelStats |-> <<>>, limitMessages |-> 0]

Limits(t, c, m) == [token |-> t, cost |-> c, msg |-> m]

Snap(blocks, limits) ==
    [importable |-> TRUE, fetchRaises |-> FALSE, error |-> <<>>,
     blocks |-> blocks, limits |-> limits, limitsRaise |-> FALSE]

ProLimits == Limits(19000, 1800, 250)

OldBlock  == Block("false", 1200, 75, 4, 300)
IdleBlock == Block("missing", 0, 0, 0, 0)
BusyBlock ==
    [Block("true", 9500, 1710, 61, 125) EXCEPT
        !.burnRate = TRUE, !.projection = TRUE, !.remaining = 45,
        !.endTime = "iso", !.perModelStats = <<2500, 7000>>,
        !.limitMessages = 4]
NewBlock ==
    [Block("true", 19000, 20, 1, 0) EXCEPT
        !.projection = TRUE, !.endTime = "bad"]

\* What the analyzer library does in one run of main().
Snapshots ==
    { [Snap(<<>>, ProLimits) EXCEPT !.importable = FALSE],
      [Snap(<<>>, ProLimits) EXCEPT !.fetchRaises = TRUE,
                                    !.error = Times(101, 81)],
      [Snap(<<>>, ProLimits) EXCEPT !.fetchRaises = TRUE,
                                    !.error = <<110, 111>>],     \* "no"
      Snap(<<>>, ProLimits),
      Snap(<<OldBlock, IdleBlock>>, ProLimits),
      Snap(<<IdleBlock, OldBlock>>, ProLimits),
      Snap(<<OldBlock, BusyBlock, NewBlock>>, ProLimits),
      Snap(<<NewBlock, BusyBlock, IdleBlock>>, Limits(0, 0, 0)),
      [Snap(<<BusyBlock>>, ProLimits) EXCEPT !.limitsRaise = TRUE] }

----------------------------------------------------------------------------
(* The script, one invocation at a time *)

SettingsIdle ==
    /\ file = Absent /\ legacy = Absent /\ env = <<>> /\ writable = TRUE
    /\ argv = <<>> /\ exitCode = 0 /\ out = <<>> /\ render = NotRun
    /\ before = Absent /\ snapshot = None

NoBar == [done |-> FALSE, glyphs |-> <<>>]

BarIdle == pct = Rat(0, 1) /\ width = 0 /\ bar = NoBar

ReaderAt(pc) == [pc |-> pc, plan |-> None, display |-> None]

RaceIdle == procs = <<>> /\ lastWriter = 0 /\ reader = ReaderAt("off")

\* CCM_PLAN and last_used.json, for the runs of the whole script.
Homes ==
    { <<<<>>, Absent>>,
      <<BOGUS, FileOf(Obj(Str(MAX20), Missing, Missing))>> }

Init ==
    /\ file \in InitFiles
    /\ \E h \in Homes : env = h[1] /\ legacy = h[2]
    /\ writable \in BOOLEAN
    /\ argv = <<>> /\ exitCode = 0 /\ out = <<>> /\ render = NotRun
    /\ before = file /\ snapshot = None
    /\ BarIdle /\ RaceIdle

RunSetPlan_unchecked(f, w, a) == set_plan(f, w, Normalise(a[2]))

\* The --set-plan branch: [file, raised].
RunSetPlan(f, w, a) ==
    LET chosen == Normalise(a[2])
    IN  IF InSeq(chosen, VALID_PLANS) THEN set_plan(f, w, chosen)
        ELSE [file |-> f, raised |-> FALSE]

\* The --toggle-display branch: [file, raised].
RunToggleDisplay(f, w, a) ==
    LET chosen == Normalise(a[2])
    IN  IF Str(chosen) \in valid_keys THEN toggle_display(f, w, Str(chosen))
        ELSE [file |-> f, raised |-> FALSE]

\* python claude-monitor.30s.py --set-plan <v>
SetPlanCmd ==
    \E a \in Argvs :
        /\ Dispatch(a) = "set-plan"
        /\ \E res \in {RunSetPlan(file, writable, a)} :
               /\ file' = res.file
               /\ exitCode' = IF res.raised THEN 1 ELSE 0
        /\ argv' = a /\ before' = file
        /\ out' = <<>> /\ render' = NotRun /\ snapshot' = None
        /\ UNCHANGED <<legacy, env, writable, pct, width, bar,
                       procs, lastWriter, reader>>

\* python claude-monitor.30s.py --toggle-display <v>
ToggleDisplayCmd ==
    \E a \in Argvs :
        /\ Dispatch(a) = "toggle-display"
        /\ \E res \in {RunToggleDisplay(file, writable, a)} :
               /\ file' = res.file
               /\ exitCode' = IF res.raised THEN 1 ELSE 0
        /\ argv' = a /\ before' = file
        /\ out' = <<>> /\ render' = NotRun /\ snapshot' = None
        /\ UNCHANGED <<legacy, env, writable, pct, width, bar,
                       procs, lastWriter, reader>>

\* Any other command line: main(), with the analyzer doing one of `snaps`.
RenderCmd(snaps) ==
    \E snap \in snaps :
        /\ \E m \in {main(snap, env, file, legacy)} :
               /\ out' = m.out /\ render' = m.r
               /\ exitCode' = IF m.raised THEN 1 ELSE 0
        /\ \E a \in Argvs : Dispatch(a) = "main" /\ argv' = a
        /\ before' = file /\ snapshot' = snap
        /\ UNCHANGED <<file, legacy, env, writable, pct, width, bar,
                       procs, lastWriter, reader>>

Render == RenderCmd(Snapshots)

Next == SetPlanCmd \/ ToggleDisplayCmd \/ Render

Spec == Init /\ [][Next]_vars

----------------------------------------------------------------------------
(* Properties of the script, one invocation at a time (Spec) *)

PlanNames == {PRO, MAX5, MAX20, CUSTOM}

MetricNames == {TOKEN_PCT, COST, COST_PCT, MSG, MSG_PCT}

\* The last invocation was --set-plan <v> / --toggle-display <v>.
WasSetPlan == Len(argv) >= 2 /\ argv[1] = SET_PLAN_FLAG

WasToggle == Len(argv) >= 2 /\ argv[1] = TOGGLE_DISPLAY_FLAG

\* The value of key k in the JSON document v (Missing when there is none).
Field(v, k) == IF v.t = "obj" THEN v.v[k] ELSE Missing

\* The document the last invocation found: {} for no file.
Found == IF before.exists THEN Load(before).value ELSE EmptyObj

FoundParsable == ~before.exists \/ Load(before).ok

\* C2: toggling the same metric twice in a row restores the set of enabled
\* metrics that get_display() returned before, unless that set was exactly
\* {m}.  Stated in the state a first toggle_display(m) has produced, for the
\* second call applied to it.
C2_ToggleInvolutive ==
    \A m \in MetricNames :
        (WasToggle /\ Normalise(argv[2]) = m /\ exitCode = 0) =>
            LET again == toggle_display(file, writable, Str(m)).file
                now == get_display(again)
                was == get_display(before)
                prior == {was[i] : i \in 1..Len(was)}
            IN  {now[i] : i \in 1..Len(now)} = prior \/ prior = {Str(m)}

\* C4: a run of main() ends in the state that the first applicable check
\* selects (import, fetch, empty block list, no active block, else active);
\* NoActiveBlock summarises the last block and ActiveBlock uses the first
\* active one; bar-graph lines and the plan and display submenus are printed
\* only in ActiveBlock; NoBlocks prints the idle title and the "No usage
\* data found" hint.
C4_PipelineState ==
    render.state # None =>
        LET blocks == snapshot.blocks
            actives == {i \in 1..Len(blocks) : blocks[i].isActive = "true"}
            kinds == {out[i].k : i \in 1..Len(out)}
        IN  /\ render.state =
                   IF ~snapshot.importable THEN "NoLibrary"
                   ELSE IF snapshot.fetchRaises THEN "FetchError"
                   ELSE IF Len(blocks) = 0 THEN "NoBlocks"
                   ELSE IF actives = {} THEN "NoActiveBlock"
                   ELSE "ActiveBlock"
            /\ render.state = "NoActiveBlock" =>
                   render.block = blocks[Len(blocks)]
            /\ render.state = "ActiveBlock" =>
                   \E i \in actives :
                       /\ \A j \in actives : i <= j
                       /\ render.block = blocks[i]
            /\ kinds \cap {"bar", "plan", "display"} # {} =>
                   render.state = "ActiveBlock"
            /\ render.state = "NoBlocks" =>
                   /\ out[1] = Line("title", "CCM  Idle", COLOR_GRAY)
                   /\ \E i \in 1..Len(out) : out[i].text = "No usage data found"
                   /\ kinds = {"title", "sep", "hint"}

\* C4's case: no block is active and the last block differs from the first.
C4_Witness ==
    /\ render.state = "NoActiveBlock"
    /\ Len(snapshot.blocks) >= 2
    /\ snapshot.blocks[1] # snapshot.blocks[Len(snapshot.blocks)]
    /\ render.block = snapshot.blocks[Len(snapshot.blocks)]

\* C5: every invocation finishes with exit code 0, whatever the analyzer,
\* the plan-limit lookups and the settings file do.
C5_AlwaysExitZero == exitCode = 0

\* C6: an invocation with --set-plan <v> or --toggle-display <v> prints
\* nothing and never enters main(), and it changes the settings file only
\* when v, lower-cased and trimmed, is a recognized plan or metric.
C6_CommandsDoNotRender ==
    /\ WasSetPlan =>
           /\ out = <<>> /\ render = NotRun
           /\ Normalise(argv[2]) \notin PlanNames => file = before
    /\ (~WasSetPlan /\ WasToggle) =>
           /\ out = <<>> /\ render = NotRun
           /\ Normalise(argv[2]) \notin MetricNames => file = before

\* C6's case: --set-plan with an unrecognized value on an existing file.
C6_Witness ==
    /\ WasSetPlan /\ argv[2] = BOGUS
    /\ before.exists /\ Load(before).ok /\ file = before /\ exitCode = 0

\* C9: set_plan(p) and toggle_display(m), on a parsable or absent settings
\* file (that can be written), store the one key they set and leave every
\* other key as it was.
C9_ReadMergeWrite ==
    /\ (WasSetPlan /\ Normalise(argv[2]) \in PlanNames /\ FoundParsable
            /\ writable) =>
           /\ Load(file).ok /\ Load(file).value.t = "obj"
           /\ Field(Load(file).value, "plan") = Str(Normalise(argv[2]))
           /\ Field(Load(file).value, "display") = Field(Found, "display")
           /\ Field(Load(file).value, "theme") = Field(Found, "theme")
    /\ (WasToggle /\ Normalise(argv[2]) \in MetricNames /\ FoundParsable
            /\ writable) =>
           /\ Load(file).ok /\ Load(file).value.t = "obj"
           /\ Field(Load(file).value, "display")
                  = List(Toggled(get_display(before), Str(Normalise(argv[2]))))
           /\ Field(Load(file).value, "plan") = Field(Found, "plan")
           /\ Field(Load(file).value, "theme") = Field(Found, "theme")

----------------------------------------------------------------------------
(* The reads of the settings that a render makes (SpecStore), for every    *)
(* content of the two files and of CCM_PLAN.                               *)

\* plan = get_plan(), main() line 307
ReadPlan ==
    /\ reader.pc = "start"
    /\ reader' = [reader EXCEPT !.pc = "plan",
                                !.plan = get_plan(env, file, legacy)]
    /\ UNCHANGED <<file, legacy, env, writable, argv, exitCode, out, render,
                   before, snapshot, pct, width, bar, procs, lastWriter>>

\* display = get_display(), main() line 327
ReadDisplay ==
    /\ reader.pc = "plan"
    /\ reader' = [reader EXCEPT !.pc = "done", !.display = get_display(file)]
    /\ UNCHANGED <<file, legacy, env, writable, argv, exitCode, out, render,
                   before, snapshot, pct, width, bar, procs, lastWriter>>

InitStore ==
    /\ file \in InitFiles /\ legacy \in Legacies /\ env \in Envs
    /\ writable = TRUE
    /\ argv = <<>> /\ exitCode = 0 /\ out = <<>> /\ render = NotRun
    /\ before = file /\ snapshot = None
    /\ BarIdle
    /\ procs = <<>> /\ lastWriter = 0 /\ reader = ReaderAt("start")

NextStore == ReadPlan \/ ReadDisplay

SpecStore == InitStore /\ [][NextStore]_vars

\* The settings file stores at least one recognized metric identifier.
StoresRecognized(f) ==
    /\ f.exists /\ Load(f).ok
    /\ LET d == Field(Load(f).value, "display")
       IN  d.t = "list" /\ \E i \in 1..Len(d.v) :
                               /\ d.v[i].t = "str"
                               /\ d.v[i].v \in MetricNames

\* C1: whatever the settings file holds, get_display() returns a non-empty
\* list of recognized metric identifiers, and exactly [token_pct, cost] when
\* the file stores no recognized identifier.
C1_DisplayNeverEmpty ==
    reader.pc = "done" =>
        /\ Len(reader.display) > 0
        /\ \A i \in 1..Len(reader.display) :
               reader.display[i] \in {Str(m) : m \in MetricNames}
        /\ ~StoresRecognized(file) =>
               reader.display = <<Str(TOKEN_PCT), Str(COST)>>

\* C1's case: the stored display list holds only an unrecognized identifier.
C1_Witness ==
    /\ reader.pc = "done"
    /\ file.exists /\ Load(file).ok
    /\ Field(Load(file).value, "display") = List(<<Str(BOGUS)>>)
    /\ reader.display = <<Str(TOKEN_PCT), Str(COST)>>

\* The plan a source stores, lower-cased and trimmed (<<>> for none).
StoredPlan(f) ==
    IF f.exists /\ Load(f).ok /\ Field(Load(f).value, "plan").t = "str"
    THEN Normalise(Field(Load(f).value, "plan").v) ELSE <<>>

\* C3: get_plan() returns the value of the first of CCM_PLAN, the settings
\* file and the legacy file that holds a member of the plan enumeration
\* after lower-casing and trimming, and "pro" when none does.
C3_PlanResolution ==
    reader.pc \in {"plan", "done"} =>
        LET cands == <<Normalise(env), StoredPlan(file), StoredPlan(legacy)>>
            ok == {i \in 1..3 : cands[i] \in PlanNames}
        IN  /\ reader.plan \in PlanNames
            /\ IF ok = {} THEN reader.plan = PRO
               ELSE \E i \in ok : /\ \A j \in ok : i <= j
                                  /\ reader.plan = cands[i]

\* C3's case: CCM_PLAN and the settings file hold no valid plan, the legacy
\* file does.
C3_Witness ==
    /\ reader.pc = "plan"
    /\ env = BOGUS /\ file.exists /\ StoredPlan(file) \notin PlanNames
    /\ StoredPlan(legacy) = MAX20 /\ reader.plan = MAX20

----------------------------------------------------------------------------
(* bar_graph applied to a percentage and a width (SpecBar) *)

\* Widths 0..MaxWidth and 100; percentages 5k/d for k in -MaxK..MaxK and d in
\* 1..2, and three whole percentages that the division by 100 does not
\* give back.
MaxWidth == 16
MaxK == 30

BarPcts ==
    {Rat(5 * k, d) : k \in (-MaxK)..MaxK, d \in {1, 2}}
        \cup {Rat(29, 1), Rat(57, 1), Rat(58, 1)}

\* The widest bar of the grid and a bar of a hundred glyphs.
BarWidths == 0..MaxWidth \cup {100}

\* The float a percentage of the grid is.
FloatOfRat(p) == FDiv(FromInt(p.n), FromInt(p.d))

BarGraph ==
    /\ ~bar.done
    /\ bar' = [done |-> TRUE, glyphs |-> bar_graph(FloatOfRat(pct), width)]
    /\ UNCHANGED <<file, legacy, env, writable, argv, exitCode, out, render,
                   before, snapshot, pct, width, procs, lastWriter, reader>>

InitBar ==
    /\ SettingsIdle /\ RaceIdle
    /\ pct \in BarPcts /\ width \in BarWidths /\ bar = NoBar

SpecBar == InitBar /\ [][BarGraph]_vars

\* floor(pct / 100 * width), clamped to width
ClaimedFilled(p, w) ==
    LET f == (p.n * w) \div (p.d * 100) IN IF f < w THEN f ELSE w

\* C7: for every pct, negative and above 100 included, and every width >= 0
\* bar_graph(pct, width) is exactly `width` glyphs, `filled` full ones then
\* empty ones, filled = min(floor(pct/100 * width), width); filled does not
\* decrease as pct grows; bar_graph(100, 10) is all full and bar_graph(0, 10)
\* all empty.
C7_BarGraph ==
    bar.done =>
        /\ Len(bar.glyphs) = width
        /\ \A i \in 1..Len(bar.glyphs) :
               bar.glyphs[i] = IF i <= ClaimedFilled(pct, width) THEN FULL
                               ELSE EMPTY
        /\ \A q \in BarPcts :
               (q.n * pct.d >= pct.n * q.d /\ (q.n - 5 * q.d) * pct.d <= pct.n * q.d) =>
                   Filled(FloatOfRat(q), width) >= Filled(FloatOfRat(pct), width)
        /\ (pct = Rat(100, 1) /\ width = 10) => bar.glyphs = Times(FULL, 10)
        /\ (pct = Rat(0, 1) /\ width = 10) => bar.glyphs = Times(EMPTY, 10)

----------------------------------------------------------------------------
(* The dashboard for one active block, over usage numbers around the       *)
(* colour thresholds (SpecTitle).  Costs are in cents.                     *)

UsageSnapshots ==
    { Snap(<<OldBlock, Block("true", t, c, m, 10)>>, Limits(tl, cl, ml)) :
        t \in {0, 49999, 50000, 79999, 80000, 94999, 95000, 130000},
        tl \in {0, 100000},
        c \in {0, 500, 805, 950}, cl \in {0, 1000},
        m \in {0, 19, 24}, ml \in {0, 20} }

AllMetrics ==
    FileOf(Obj(Missing,
               List(<<Str(MSG_PCT), Str(COST_PCT), Str(MSG), Str(TOKEN_PCT),
                      Str(COST)>>),
               Missing))

InitTitle ==
    /\ file \in {Absent, AllMetrics} /\ legacy = Absent /\ env = <<>>
    /\ writable = TRUE
    /\ argv = <<>> /\ exitCode = 0 /\ out = <<>> /\ render = NotRun
    /\ before = file
    /\ snapshot \in UsageSnapshots      \* what analyze_usage is about to return
    /\ BarIdle /\ RaceIdle

RenderUsage == RenderCmd({snapshot})

SpecTitle == InitTitle /\ [][RenderUsage]_vars

\* C8: in ActiveBlock the title line has the tier colour of the largest of
\* the three percentages used/limit*100 (0 for a non-positive limit): red
\* from 95, orange from 80, yellow from 50, else green; 50000 of 100000
\* tokens and $5.00 of $10.00 with the default metrics give the title
\* "TKN 50%  CST $5.00" in yellow.
C8_TitleColor ==
    (render.state = "ActiveBlock" /\ exitCode = 0) =>
        LET b == render.block
            lim == snapshot.limits
            Reaches(k) ==
                \/ lim.token > 0 /\ b.totalTokens * 100 >= k * lim.token
                \/ lim.cost > 0 /\ b.costUSD * 100 >= k * lim.cost
                \/ lim.msg > 0 /\ b.sentMessagesCount * 100 >= k * lim.msg
            tier == IF Reaches(95) THEN "#FF6B6B"
                    ELSE IF Reaches(80) THEN "#FF9F43"
                    ELSE IF Reaches(50) THEN "#FFD95C"
                    ELSE "#6BDB7B"
        IN  /\ out[1].k = "title" /\ out[1].color = tier
            /\ ( /\ b.totalTokens = 50000 /\ lim.token = 100000
                 /\ b.costUSD = 500 /\ lim.cost = 1000
                 /\ b.sentMessagesCount = 0
                 /\ render.display = <<Str(TOKEN_PCT), Str(COST)>> ) =>
                   /\ out[1].text = "TKN 50%  CST $5.00"
                   /\ out[1].color = "#FFD95C"

\* C8's case: the example, rendered.
C8_Witness ==
    /\ render.state = "ActiveBlock" /\ exitCode = 0
    /\ render.block.totalTokens = 50000 /\ snapshot.limits.token = 100000
    /\ render.block.costUSD = 500 /\ snapshot.limits.cost = 1000
    /\ render.block.sentMessagesCount = 0
    /\ render.display = <<Str(TOKEN_PCT), Str(COST)>>
    /\ out[1] = Line("title", "TKN 50%  CST $5.00", COLOR_YELLOW)

----------------------------------------------------------------------------
(* Concurrent invocations on the settings file (SpecRace): NProcs command  *)
(* invocations and one render, each a sequence of system calls.            *)

NProcs == 2

Commands ==
    { [cmd |-> "set_plan", arg |-> PRO],
      [cmd |-> "set_plan", arg |-> MAX20],
      [cmd |-> "toggle_display", arg |-> MSG],
      [cmd |-> "toggle_display", arg |-> COST] }

RaceFiles ==
    { Absent, FileOf(EmptyObj),
      FileOf(Obj(Str(MAX5), List(<<Str(COST)>>), Missing)) }

InitRace ==
    /\ file \in RaceFiles /\ legacy = Absent /\ env = <<>> /\ writable = TRUE
    /\ argv = <<>> /\ exitCode = 0 /\ out = <<>> /\ render = NotRun
    /\ before = file /\ snapshot = None
    /\ BarIdle
    /\ procs \in [1..NProcs ->
                    {[cmd |-> c.cmd, arg |-> c.arg, pc |-> "start",
                      current |-> <<>>, doc |-> Missing] : c \in Commands}]
    /\ lastWriter = 0
    /\ reader = ReaderAt("start")

RaceFrame ==
    UNCHANGED <<legacy, env, writable, argv, exitCode, out, render, before,
                snapshot, pct, width, bar>>

\* toggle_display: current = get_display(), then the toggle
LoadDisplay(i) ==
    /\ procs[i].pc = "start" /\ procs[i].cmd = "toggle_display"
    /\ procs' = [procs EXCEPT
                    ![i].pc = "toggled",
                    ![i].current = Toggled(get_display(file), Str(procs[i].arg))]
    /\ UNCHANGED <<file, lastWriter, reader>> /\ RaceFrame

\* _save_config: the read of the file and config[key] = value
ReadAndMerge(i) ==
    /\ \/ procs[i].pc = "start" /\ procs[i].cmd = "set_plan"
       \/ procs[i].pc = "toggled"
    /\ \E m \in {IF procs[i].cmd = "set_plan"
                 THEN Merge(file, "plan", Str(procs[i].arg))
                 ELSE Merge(file, "display", List(procs[i].current))} :
           procs' = [procs EXCEPT
                        ![i].pc = IF m.raised THEN "raised" ELSE "merged",
                        ![i].doc = m.doc]
    /\ UNCHANGED <<file, lastWriter, reader>> /\ RaceFrame

\* _save_config: open(CONFIG_PATH, "w")
OpenForWrite(i) ==
    /\ procs[i].pc = "merged"
    /\ IF writable
       THEN /\ file' = Truncate(file)
            /\ procs' = [procs EXCEPT ![i].pc = "opened"]
       ELSE /\ file' = file
            /\ procs' = [procs EXCEPT ![i].pc = "raised"]
    /\ UNCHANGED <<lastWriter, reader>> /\ RaceFrame

\* _save_config: json.dump and the close that writes the buffer out
DumpAndClose(i) ==
    /\ procs[i].pc = "opened"
    /\ file' = WriteAt0(file, procs[i].doc)
    /\ procs' = [procs EXCEPT ![i].pc = "done"]
    /\ lastWriter' = i
    /\ UNCHANGED reader /\ RaceFrame

NextRace ==
    \/ \E i \in 1..NProcs :
           LoadDisplay(i) \/ ReadAndMerge(i) \/ OpenForWrite(i) \/ DumpAndClose(i)
    \/ ReadPlan
    \/ ReadDisplay

SpecRace == InitRace /\ [][NextRace]_vars

\* C10: once the concurrent command invocations have finished, the settings
\* file is exactly the document written by the one whose write came last;
\* and a render reading the file at any point gets a plan of the
\* enumeration and a non-empty display list.
C10_LastWriteWins ==
    /\ ( /\ \A i \in DOMAIN procs : procs[i].pc \in {"done", "raised"}
         /\ lastWriter # 0 ) => file = FileOf(procs[lastWriter].doc)
    /\ reader.pc \in {"plan", "done"} => reader.plan \in PlanNames
    /\ reader.pc = "done" =>
           /\ Len(reader.display) > 0
           /\ \A i \in 1..Len(reader.display) :
                  reader.display[i] \in {Str(m) : m \in MetricNames}

====
